---- MODULE Spec2Model ----
(***************************************************************************)
(* Model of the polybar ProgressBar (src/polybar/polybar.go).              *)
(*                                                                         *)
(* A Go string is a sequence of bytes.  A byte is written as a token: an   *)
(* ASCII byte is the one-character string of its character ("A", "-"),     *)
(* the byte 0x00 is "NUL", and a byte >= 0x80 is named by its hex value    *)
(* ("C3", "A9").  A rune is written as the byte sequence of its UTF-8      *)
(* encoding, so encoding a rune is the identity on this representation     *)
(* and decoding is what the model has to compute.                          *)
(*                                                                         *)
(* src/polybar.go is an older copy of the same package: New, the           *)
(* complement, padOrTruncate, the four methods and the computation of pos  *)
(* are the same; it swaps the 5'/3' labels, never prints the header line   *)
(* and always moves the cursor up 5 lines.  The model follows              *)
(* src/polybar/polybar.go, the package the commands import.                *)
(*                                                                         *)
(* Integers are unbounded here; the values the model draws keep            *)
(* completed * width far inside the range of Go's int.                     *)
(***************************************************************************)
EXTENDS Integers, Sequences, FiniteSets, TLC

VARIABLES
    width,       \* pb.width
    headerLine,  \* pb.headerLine
    topStrand,   \* pb.topStrand
    complement,  \* pb.complement
    completed,   \* pb.completed
    total,       \* pb.total
    seqArg,      \* the sequence argument New was called with
    headerArg,   \* the header argument New was called with
    lastOp,      \* the exported call that ran last
    drew,        \* whether the call that returned last printed a frame
    ups,         \* cursor-up sequences ("\033[F") that call wrote
    frame,       \* the line of each kind written to stderr most recently
    pos,         \* the local pos of the last render that computed it
    blank,       \* whether the last call wrote the trailing newline of Finish
    faulted,     \* a run-time panic has ended the program
    pc,          \* per goroutine: where it stands inside Update
    reg,         \* per goroutine: the value of pb.completed it has loaded
    loc,         \* per goroutine: the locals of its call of render
    returned,    \* Update calls that have returned (concurrent runs)
    orig,        \* complement probe: the sequence first given
    strand,      \* complement probe: the current sequence
    rounds       \* complement probe: times generateComplement was applied

vars == << width, headerLine, topStrand, complement, completed, total,
           seqArg, headerArg, lastOp, drew, ups, frame, pos, blank, faulted,
           pc, reg, loc, returned, orig, strand, rounds >>

barVars == << width, headerLine, topStrand, complement, completed, total,
              seqArg, headerArg, lastOp, drew, ups, frame, pos, blank, faulted >>
goVars == << pc, reg, loc, returned >>
probeVars == << orig, strand, rounds >>

----------------------------------------------------------------------------
(* Bounds of the model. *)

MaxSeqLen == 2        \* runes in the sequence argument of New
MaxTotal == 2         \* largest argument of Start
MaxNegTotal == 1      \* Start arguments go down to -MaxNegTotal
MaxArg == 3           \* largest argument of SetProgress
MaxNegArg == 1        \* SetProgress arguments go down to -MaxNegArg
MaxCompleted == 3     \* Update is not called once completed reaches this
MaxProbeLen == 2      \* runes in the complement probe
MaxUpdates == 3       \* Update calls the goroutines make in all
MaxRounds == 2        \* times the probe applies generateComplement

----------------------------------------------------------------------------
(* Bytes, runes and the UTF-8 decoding done by Go's range loop. *)

RuneError == << "EF", "BF", "BD" >>      \* U+FFFD
LeadBytes2 == { "C3", "C4" }             \* first byte of a two-byte rune
LeadBytes3 == { "EF" }                   \* first byte of a three-byte rune
ContBytes == { "A9", "89", "B1", "BF", "BD" }   \* continuation bytes

eAcute == << "C3", "A9" >>               \* U+00E9, lower case
EAcute == << "C3", "89" >>               \* U+00C9, its upper case
dotlessI == << "C4", "B1" >>             \* U+0131, upper case is ASCII I

\* The rune that starts at byte i of s and the number of bytes it takes; a
\* byte that starts no valid encoding decodes as RuneError of size 1.
DecodeRune(s, i) ==
    IF s[i] \in LeadBytes2
    THEN IF i + 1 <= Len(s) /\ s[i + 1] \in ContBytes
         THEN [rune |-> << s[i], s[i + 1] >>, size |-> 2]
         ELSE [rune |-> RuneError, size |-> 1]
    ELSE IF s[i] \in LeadBytes3
    THEN IF i + 2 <= Len(s) /\ s[i + 1] \in ContBytes /\ s[i + 2] \in ContBytes
         THEN [rune |-> << s[i], s[i + 1], s[i + 2] >>, size |-> 3]
         ELSE [rune |-> RuneError, size |-> 1]
    ELSE IF s[i] \in ContBytes
    THEN [rune |-> RuneError, size |-> 1]
    ELSE [rune |-> << s[i] >>, size |-> 1]

\* unicode.ToUpper on the runes of the model.
UpperRune(r) ==
    CASE r = << "a" >> -> << "A" >>
      [] r = << "t" >> -> << "T" >>
      [] r = << "g" >> -> << "G" >>
      [] r = << "c" >> -> << "C" >>
      [] r = << "x" >> -> << "X" >>
      [] r = eAcute -> EAcute
      [] r = dotlessI -> << "I" >>
      [] OTHER -> r

RECURSIVE ToUpperFrom(_, _)
ToUpperFrom(s, i) ==
    IF i > Len(s) THEN << >>
    ELSE LET d == DecodeRune(s, i)
         IN  UpperRune(d.rune) \o ToUpperFrom(s, i + d.size)

\* strings.ToUpper: every rune replaced by its upper case, re-encoded.
ToUpper(s) == ToUpperFrom(s, 1)

\* The white space strings.TrimSpace removes, among the bytes of the model.
IsSpace(b) == b \in { " ", "\t", "\n" }

\* strings.TrimSpace(s) == "": nothing is left once white space is trimmed.
TrimmedEmpty(s) == \A i \in 1..Len(s) : IsSpace(s[i])

RECURSIVE Repeat(_, _)
\* strings.Repeat(s, n) for n >= 0; Go panics on a negative count, which the
\* callers below rule out before they use it.
Repeat(s, n) == IF n <= 0 THEN << >> ELSE s \o Repeat(s, n - 1)

\* Go's integer division, which truncates toward zero (b # 0).
GoDiv(a, b) ==
    IF (a >= 0) = (b > 0) \/ a = 0
    THEN (IF a >= 0 THEN a ELSE -a) \div (IF b >= 0 THEN b ELSE -b)
    ELSE -((IF a >= 0 THEN a ELSE -a) \div (IF b >= 0 THEN b ELSE -b))

----------------------------------------------------------------------------
(* The package: constants, New and its helpers. *)

zipperChar == << "E2", "94", "AC" >>     \* U+252C
baseChar == << "E2", "94", "B4" >>       \* U+2534
arrowText == << "=", "=", "=", ">" >>

defaultSequence ==
    << "G", "C", "C", "A", "G", "T", "T", "T", "T", "G", "G",
       "G", "C", "T", "G", "G", "T", "T", "G", "G", "C" >>

\* ComplementBase with the two digit cases left out.
ComplementBaseNoDigits(base) ==
    CASE base = << "A" >> -> "T"
      [] base = << "T" >> -> "A"
      [] base = << "G" >> -> "C"
      [] base = << "C" >> -> "G"
      [] base = << "-" >> -> "-"
      [] OTHER -> "N"

\* The switch of generateComplement on one rune; the result is one byte.
ComplementBase(base) ==
    CASE base = << "5" >> -> "3"
      [] base = << "3" >> -> "5"
      [] base = << "A" >> -> "T"
      [] base = << "T" >> -> "A"
      [] base = << "G" >> -> "C"
      [] base = << "C" >> -> "G"
      [] base = << "-" >> -> "-"
      [] OTHER -> "N"

RECURSIVE ComplementLoop(_, _, _)
\* The range loop: i is the byte offset of the rune, and the slot written is
\* complement[i]; the slots at the other bytes of a rune keep rune 0.
ComplementLoop(sequence, i, comp) ==
    IF i > Len(sequence) THEN comp
    ELSE LET d == DecodeRune(sequence, i)
         IN  ComplementLoop(sequence, i + d.size,
                            [comp EXCEPT ![i] = ComplementBase(d.rune)])

\* make([]rune, len(sequence)) holds one rune 0 per byte of the sequence;
\* string(complement) encodes each rune, rune 0 as the byte NUL.
generateComplement(sequence) ==
    ComplementLoop(sequence, 1, [i \in 1..Len(sequence) |-> "NUL"])

\* padOrTruncate that pads and never truncates.
padOrTruncateNoCut(s, length) ==
    IF Len(s) < length THEN s \o Repeat(<< "-" >>, length - Len(s)) ELSE s

padOrTruncate(s, length) ==
    IF Len(s) = length THEN s
    ELSE IF Len(s) < length THEN s \o Repeat(<< "-" >>, length - Len(s))
    ELSE SubSeq(s, 1, length)

\* The ProgressBar New returns.
New(sequence, header) ==
    LET seq == IF TrimmedEmpty(sequence) THEN defaultSequence ELSE sequence
        top == ToUpper(seq)
        comp == generateComplement(top)
    IN  IF header # << >>
        THEN [width |-> Len(header), headerLine |-> header,
              topStrand |-> padOrTruncate(top, Len(header)),
              complement |-> padOrTruncate(comp, Len(header)),
              completed |-> 0, total |-> 0]
        ELSE [width |-> Len(top), headerLine |-> header,
              topStrand |-> top, complement |-> comp,
              completed |-> 0, total |-> 0]

----------------------------------------------------------------------------
(* render. *)

\* The frame before any frame was printed.
NoFrame ==
    [header |-> << >>, zipper |-> << >>, top |-> << >>, comp |-> << >>,
     primer |-> << >>, pct |-> 0, num |-> 0, den |-> 0]

\* FillPos that rounds the quotient to the nearest cell.
FillPosNearest(c, w, t) ==
    LET q == GoDiv(2 * c * w + t, 2 * t)
    IN  IF q > w THEN w ELSE q

\* pos as render computes it: the quotient, then the upper clamp.
FillPos(c, w, t) ==
    LET q == GoDiv(c * w, t)
    IN  IF q > w THEN w ELSE q

\* s[:n] is in range.
SliceOk(s, n) == 0 <= n /\ n <= Len(s)

\* The lines 5+1 of the cursor-up loop: one more with a header line.
FrameLines(header) == 5 + (IF header # << >> THEN 1 ELSE 0)

\* Lines 150-170 panic for this pos: a negative slice bound or Repeat count.
slicePanics(pb, p) ==
    \/ p <= Len(pb.topStrand) /\ ~SliceOk(pb.topStrand, p)
    \/ p <= Len(pb.complement) /\ ~SliceOk(pb.complement, p)
    \/ p < pb.width /\ p < 0

\* The four lines render builds from pos and the fields New has fixed.
buildLines(pb, p) ==
    [zipper |-> << "3", "'" >> \o Repeat(zipperChar, pb.width),
     top |-> IF p <= Len(pb.topStrand)
             THEN << "-", "-" >> \o SubSeq(pb.topStrand, 1, p)
             ELSE << "-", "-" >> \o pb.topStrand,
     comp |-> IF p <= Len(pb.complement)
              THEN << "-", "-" >> \o SubSeq(pb.complement, 1, p)
              ELSE << "-", "-" >> \o pb.complement,
     primer |-> IF p < pb.width
                THEN << "5", "'" >> \o Repeat(baseChar, p) \o arrowText
                ELSE << "5", "'" >> \o Repeat(baseChar, pb.width)
                         \o arrowText]

\* render past its guard, run with no other goroutine in between: the lines
\* are built (a panic comes before anything is written), then the cursor
\* moves up `ups` lines and `frame` is printed.
renderFrame(pb) ==
    LET p == FillPos(pb.completed, pb.width, pb.total)
        lines == buildLines(pb, p)
    IN  IF slicePanics(pb, p)
        THEN [kind |-> "panic", pos |-> p, ups |-> 0, frame |-> NoFrame]
        ELSE [kind |-> "frame", pos |-> p,
              ups |-> IF pb.completed > 0 THEN FrameLines(pb.headerLine)
                      ELSE 0,
              frame |-> [header |-> pb.headerLine, zipper |-> lines.zipper,
                         top |-> lines.top, comp |-> lines.comp,
                         primer |-> lines.primer,
                         \* the arguments of the "%.1f%% (%d/%d)" line:
                         \* completed as read for percent, then for %d
                         pct |-> pb.completed,
                         num |-> pb.completed, den |-> pb.total]]

\* render without the guard on total: the division by zero panics.
renderUnguarded(pb) ==
    IF pb.total = 0
    THEN [kind |-> "panic", pos |-> 0, ups |-> 0, frame |-> NoFrame]
    ELSE renderFrame(pb)

\* What one call of render does to a bar with the fields of pb:
\*   kind "noop"   total is zero, nothing is computed or written;
\*   kind "panic"  the program ends in a run-time panic, nothing written;
\*   kind "frame"  a frame is printed.
render(pb) ==
    IF pb.total = 0
    THEN [kind |-> "noop", pos |-> 0, ups |-> 0, frame |-> NoFrame]
    ELSE renderFrame(pb)

\* The bar with completed and total as the caller of render has set them.
Bar(c, t) ==
    [width |-> width, headerLine |-> headerLine, topStrand |-> topStrand,
     complement |-> complement, completed |-> c, total |-> t]

\* The effect of pb.render() on what was written and on the program.
Rendered(c, t) ==
    LET r == render(Bar(c, t))
    IN  /\ drew' = (r.kind = "frame")
        /\ ups' = r.ups
        /\ frame' = IF r.kind = "frame" THEN r.frame ELSE frame
        /\ pos' = IF r.kind = "noop" THEN pos ELSE r.pos
        /\ faulted' = (r.kind = "panic")

----------------------------------------------------------------------------
(* The inputs the model draws. *)

\* Runes of the sequence argument: a paired base, the gap, lower case, white
\* space, an unpaired letter and two non-ASCII letters.
SeqRunes ==
    { << "A" >>, << "-" >>, << "a" >>, << " " >>, << "X" >>, eAcute,
      dotlessI }

RECURSIVE RuneStrings(_, _)
\* The strings of at most n runes of R.
RuneStrings(R, n) ==
    IF n = 0 THEN { << >> }
    ELSE LET shorter == RuneStrings(R, n - 1)
         IN  shorter \cup { s \o r : s \in shorter, r \in R }

SeqInputs == RuneStrings(SeqRunes, MaxSeqLen)

HeaderInputs ==
    { << >>, << "H" >>, EAcute, << "H", "E", "A", "D", "E", "R" >> }

TotalInputs == (0 - MaxNegTotal)..MaxTotal
ProgressInputs == (0 - MaxNegArg)..MaxArg

Goroutines == { "g1", "g2" }

ProbeRunes ==
    { << "A" >>, << "T" >>, << "G" >>, << "C" >>, << "5" >>, << "3" >>,
      << "-" >>, << "N" >>, << "X" >>, << "a" >>, eAcute }

ProbeInputs == RuneStrings(ProbeRunes, MaxProbeLen)

----------------------------------------------------------------------------
(* The sequential program: New, then any calls of the exported methods. *)

InitBar(sequence, header) ==
    LET pb == New(sequence, header)
    IN  /\ width = pb.width
        /\ headerLine = pb.headerLine
        /\ topStrand = pb.topStrand
        /\ complement = pb.complement
        /\ completed = pb.completed
        /\ total = pb.total
        /\ seqArg = sequence
        /\ headerArg = header
        /\ lastOp = "New"
        /\ drew = FALSE
        /\ ups = 0
        /\ frame = NoFrame
        /\ pos = 0
        /\ blank = FALSE
        /\ faulted = FALSE

NoLocals == [pos |-> 0, pct |-> 0, num |-> 0, ups |-> 0, left |-> 0]

InitGo ==
    /\ pc = [g \in Goroutines |-> "idle"]
    /\ reg = [g \in Goroutines |-> 0]
    /\ loc = [g \in Goroutines |-> NoLocals]
    /\ returned = 0

InitProbe(s) ==
    /\ orig = s
    /\ strand = s
    /\ rounds = 0

Init ==
    /\ \E sequence \in SeqInputs, header \in HeaderInputs :
          InitBar(sequence, header)
    /\ InitGo
    /\ InitProbe(<< >>)

fields == << width, headerLine, topStrand, complement, seqArg, headerArg >>

Start(t) ==
    /\ ~faulted
    /\ total' = t
    /\ completed' = 0
    /\ Rendered(0, t)
    /\ lastOp' = "Start"
    /\ blank' = FALSE
    /\ UNCHANGED << fields, goVars, probeVars >>

Update ==
    /\ ~faulted
    /\ completed < MaxCompleted
    /\ completed' = completed + 1
    /\ Rendered(completed + 1, total)
    /\ lastOp' = "Update"
    /\ blank' = FALSE
    /\ UNCHANGED << total, fields, goVars, probeVars >>

SetProgress(c) ==
    /\ ~faulted
    /\ completed' = c
    /\ Rendered(c, total)
    /\ lastOp' = "SetProgress"
    /\ blank' = FALSE
    /\ UNCHANGED << total, fields, goVars, probeVars >>

\* Finish that renders without setting completed to total.
FinishKeepsCompleted ==
    /\ ~faulted
    /\ completed' = completed
    /\ Rendered(completed, total)
    /\ lastOp' = "Finish"
    /\ blank' = ~faulted'
    /\ UNCHANGED << total, fields, goVars, probeVars >>

Finish ==
    /\ ~faulted
    /\ completed' = total
    /\ Rendered(total, total)
    /\ lastOp' = "Finish"
    /\ blank' = ~faulted'
    /\ UNCHANGED << total, fields, goVars, probeVars >>

Next ==
    \/ \E t \in TotalInputs : Start(t)
    \/ Update
    \/ \E c \in ProgressInputs : SetProgress(c)
    \/ Finish

Spec == Init /\ [][Next]_vars

----------------------------------------------------------------------------
(* Goroutines sharing one bar.  The struct has no lock, so the steps of    *)
(* different goroutines interleave at every access of pb.completed and at  *)
(* every write to stderr: Update is a load and a store (pb.completed++),   *)
(* and render reads pb.completed four times (lines 140, 173, 174, 177) and *)
(* makes one write per cursor-up and per line.  total, width, headerLine   *)
(* and the strands are written by no worker, so reading them takes no step *)
(* of its own.                                                             *)

InFlight == Cardinality({ g \in Goroutines : pc[g] # "idle" })

\* The main goroutine calls Start before it starts the workers.
ConcStart(t) ==
    /\ lastOp = "New"
    /\ ~faulted
    /\ total' = t
    /\ completed' = 0
    /\ Rendered(0, t)
    /\ lastOp' = "Start"
    /\ blank' = FALSE
    /\ UNCHANGED << fields, goVars, probeVars >>

\* pb.completed++, first half: read the field.
UpdateLoad(g) ==
    /\ lastOp # "New"
    /\ ~faulted
    /\ pc[g] = "idle"
    /\ returned + InFlight < MaxUpdates
    /\ reg' = [reg EXCEPT ![g] = completed]
    /\ pc' = [pc EXCEPT ![g] = "loaded"]
    /\ UNCHANGED << barVars, loc, returned, probeVars >>

\* pb.completed++, second half: write the field.
UpdateStore(g) ==
    /\ ~faulted
    /\ pc[g] = "loaded"
    /\ completed' = reg[g] + 1
    /\ pc' = [pc EXCEPT ![g] = "stored"]
    /\ UNCHANGED << total, fields, lastOp, drew, ups, frame, pos, blank,
                    faulted, reg, loc, returned, probeVars >>

\* Update returns; wrote tells whether its render printed its lines.
Return(g, wrote) ==
    /\ pc' = [pc EXCEPT ![g] = "idle"]
    /\ returned' = returned + 1
    /\ lastOp' = "Update"
    /\ drew' = wrote
    /\ ups' = IF wrote THEN loc[g].ups ELSE 0
    /\ blank' = FALSE

\* render, lines 135-170: the guard on total, the read of pb.completed for
\* pos, and the lines built from pos.
RenderPos(g) ==
    /\ ~faulted
    /\ pc[g] = "stored"
    /\ IF total = 0
       THEN /\ Return(g, FALSE)
            /\ UNCHANGED << loc, pos, faulted >>
       ELSE LET p == FillPos(completed, width, total)
            IN  /\ pos' = p
                /\ loc' = [loc EXCEPT ![g] = [NoLocals EXCEPT !.pos = p]]
                /\ faulted' = slicePanics(Bar(completed, total), p)
                /\ pc' = [pc EXCEPT ![g] = "percent"]
                /\ UNCHANGED << returned, lastOp, drew, ups, blank >>
    /\ UNCHANGED << completed, total, fields, frame, reg, probeVars >>

\* Line 173: pb.completed read for percent.
RenderPercent(g) ==
    /\ ~faulted
    /\ pc[g] = "percent"
    /\ loc' = [loc EXCEPT ![g].pct = completed]
    /\ pc' = [pc EXCEPT ![g] = "fraction"]
    /\ UNCHANGED << barVars, reg, returned, probeVars >>

\* Line 174: pb.completed read for the %d of the fraction.
RenderFraction(g) ==
    /\ ~faulted
    /\ pc[g] = "fraction"
    /\ loc' = [loc EXCEPT ![g].num = completed]
    /\ pc' = [pc EXCEPT ![g] = "cursor"]
    /\ UNCHANGED << barVars, reg, returned, probeVars >>

\* Line 177: pb.completed read to decide whether the cursor moves up.
RenderCursor(g) ==
    /\ ~faulted
    /\ pc[g] = "cursor"
    /\ LET n == IF completed > 0 THEN FrameLines(headerLine) ELSE 0
       IN  /\ loc' = [loc EXCEPT ![g].ups = n, ![g].left = n]
           /\ pc' = [pc EXCEPT ![g] =
                        IF n > 0 THEN "up"
                        ELSE IF headerLine # << >> THEN "header"
                        ELSE "zipper"]
    /\ UNCHANGED << barVars, reg, returned, probeVars >>

\* Line 185: one cursor-up written.
RenderUp(g) ==
    /\ ~faulted
    /\ pc[g] = "up"
    /\ loc' = [loc EXCEPT ![g].left = @ - 1]
    /\ pc' = [pc EXCEPT ![g] =
                 IF loc[g].left > 1 THEN "up"
                 ELSE IF headerLine # << >> THEN "header"
                 ELSE "zipper"]
    /\ UNCHANGED << barVars, reg, returned, probeVars >>

\* Lines 190-196: one line written, the header line if there is one, then
\* the zipper, the two strands and the primer.
RenderLine(g) ==
    /\ ~faulted
    /\ pc[g] \in { "header", "zipper", "top", "comp", "primer" }
    /\ LET lines == buildLines(Bar(completed, total), loc[g].pos)
       IN  frame' = CASE pc[g] = "header" ->
                           [frame EXCEPT !.header = headerLine]
                      [] pc[g] = "zipper" ->
                           [frame EXCEPT !.zipper = lines.zipper]
                      [] pc[g] = "top" ->
                           [frame EXCEPT !.top = lines.top]
                      [] pc[g] = "comp" ->
                           [frame EXCEPT !.comp = lines.comp]
                      [] pc[g] = "primer" ->
                           [frame EXCEPT !.primer = lines.primer]
    /\ pc' = [pc EXCEPT ![g] =
                 CASE pc[g] = "header" -> "zipper"
                   [] pc[g] = "zipper" -> "top"
                   [] pc[g] = "top" -> "comp"
                   [] pc[g] = "comp" -> "primer"
                   [] pc[g] = "primer" -> "last"]
    /\ UNCHANGED << completed, total, fields, lastOp, drew, ups, pos, blank,
                    faulted, reg, loc, returned, probeVars >>

\* Line 197: the percentage line written, and the return of Update.
RenderLast(g) ==
    /\ ~faulted
    /\ pc[g] = "last"
    /\ frame' = [frame EXCEPT !.pct = loc[g].pct, !.num = loc[g].num,
                              !.den = total]
    /\ Return(g, TRUE)
    /\ UNCHANGED << completed, total, fields, pos, faulted, reg, loc,
                    probeVars >>

ConcSeqInputs == { << "A" >>, << "A", "X" >> }
ConcHeaderInputs == { << >>, << "H" >> }

InitConc ==
    /\ \E sequence \in ConcSeqInputs, header \in ConcHeaderInputs :
          InitBar(sequence, header)
    /\ InitGo
    /\ InitProbe(<< >>)

NextConc ==
    \/ \E t \in TotalInputs : ConcStart(t)
    \/ \E g \in Goroutines : UpdateLoad(g)
    \/ \E g \in Goroutines : UpdateStore(g)
    \/ \E g \in Goroutines : RenderPos(g)
    \/ \E g \in Goroutines : RenderPercent(g)
    \/ \E g \in Goroutines : RenderFraction(g)
    \/ \E g \in Goroutines : RenderCursor(g)
    \/ \E g \in Goroutines : RenderUp(g)
    \/ \E g \in Goroutines : RenderLine(g)
    \/ \E g \in Goroutines : RenderLast(g)

SpecConc == InitConc /\ [][NextConc]_vars

----------------------------------------------------------------------------
(* generateComplement applied to a sequence, and again to its result. *)

Complement ==
    /\ rounds < MaxRounds
    /\ strand' = generateComplement(strand)
    /\ rounds' = rounds + 1
    /\ UNCHANGED << orig, barVars, goVars >>

InitComplement ==
    /\ InitBar(<< >>, << >>)
    /\ InitGo
    /\ \E s \in ProbeInputs : InitProbe(s)

NextComplement == Complement

SpecComplement == InitComplement /\ [][NextComplement]_vars

----------------------------------------------------------------------------
(* Properties. *)

Header6 == << "H", "E", "A", "D", "E", "R" >>

\* The width the documentation gives a bar built from seqArg and headerArg.
ExpectedWidth ==
    IF headerArg # << >> THEN Len(headerArg)
    ELSE IF TrimmedEmpty(seqArg) THEN Len(defaultSequence)
    ELSE Len(ToUpper(seqArg))

\* C1: after New and after any calls of Start, Update, SetProgress and
\* Finish, both strands are exactly width bytes long, width is the length
\* of the header when there is one and of the upper-cased sequence (the
\* 21-byte default for an empty or blank one) otherwise, and width >= 1.
C1_StrandLengths ==
    /\ Len(topStrand) = width
    /\ Len(complement) = width
    /\ width = ExpectedWidth
    /\ width >= 1
    /\ (headerArg = << >> /\ TrimmedEmpty(seqArg)) => width = 21

\* A two-byte sequence padded to a six-byte header, after a full run.
C1_Witness ==
    /\ lastOp = "Finish"
    /\ headerArg = Header6
    /\ seqArg = << "a", "X" >>
    /\ topStrand = << "A", "X", "-", "-", "-", "-" >>
    /\ Len(complement) = 6

\* The mapping table of the documentation, on one byte of a strand.
PairOf(b) ==
    CASE b = "A" -> "T"
      [] b = "T" -> "A"
      [] b = "G" -> "C"
      [] b = "C" -> "G"
      [] b = "5" -> "3"
      [] b = "3" -> "5"
      [] b = "-" -> "-"
      [] OTHER -> "N"

\* C2: at every index below width, complement holds the table's image of
\* what topStrand holds there, padding and truncation included.
C2_ComplementPointwise ==
    /\ Len(topStrand) = Len(complement)
    /\ \A i \in 1..Len(topStrand) : complement[i] = PairOf(topStrand[i])

\* C3: with total > 0 and completed in [0, total], render computes
\* pos = floor(completed * width / total), which lies in [0, width], equals
\* width exactly when completed = total, and is 0 when completed = 0.
C3_FillPosition ==
    (lastOp # "New" /\ total > 0 /\ 0 <= completed /\ completed <= total)
    => /\ drew
       /\ pos = (completed * width) \div total
       /\ 0 <= pos /\ pos <= width
       /\ (pos = width) <=> (completed = total)
       /\ completed = 0 => pos = 0

\* Half way through a bar of three cells: floor(1 * 3 / 2) = 1.
C3_Witness ==
    /\ lastOp = "Update"
    /\ total = 2
    /\ completed = 1
    /\ width = 3
    /\ pos = 1

\* C4: whatever integers Start, Update and SetProgress are given, render
\* has pos inside [0, width] when it slices and repeats, and no call faults.
C4_NoFault ==
    /\ ~faulted
    /\ 0 <= pos /\ pos <= width

\* C5 as stated: Finish, in whatever state it is called, prints a frame
\* that is full and shows total/total.
C5_FinishAlwaysFull ==
    lastOp = "Finish"
    => /\ drew
       /\ pos = width
       /\ frame.num = total /\ frame.den = total

\* C5 amended: Finish called while total # 0 prints a full frame showing
\* total/total; while total = 0 it prints no frame, only its newline.
C5_FinishFullWhenTotalSet ==
    lastOp = "Finish"
    => /\ ~faulted
       /\ completed = total
       /\ blank
       /\ total # 0 =>
             /\ drew
             /\ pos = width
             /\ frame.num = total /\ frame.den = total
             /\ frame.top = << "-", "-" >> \o topStrand
             /\ frame.comp = << "-", "-" >> \o complement
       /\ total = 0 => ~drew

\* Finish on a started bar of four cells.
C5_Witness ==
    /\ lastOp = "Finish"
    /\ total = 2
    /\ width = 4
    /\ drew
    /\ frame.num = 2

\* C6: on a bar started with total > 0, once the goroutines' Update calls
\* have all returned, completed is the number of calls made.
C6_NoLostUpdate ==
    (total > 0 /\ ~faulted /\ \A g \in Goroutines : pc[g] = "idle")
    => completed = returned

Paired == { "A", "T", "G", "C", "5", "3", "-" }

RECURSIVE RuneStarts(_, _)
\* The byte offsets at which the runes of s start, from offset i on.
RuneStarts(s, i) ==
    IF i > Len(s) THEN { }
    ELSE { i } \cup RuneStarts(s, i + DecodeRune(s, i).size)

\* C7: complementing twice gives back each of A, T, G, C, 5, 3 and -;
\* every other character is complemented to N, and N stays N.
C7_Involution ==
    \A i \in RuneStarts(orig, 1) :
       LET r == DecodeRune(orig, i).rune
       IN  IF Len(r) = 1 /\ r[1] \in Paired
           THEN /\ rounds % 2 = 0 => strand[i] = r[1]
                /\ rounds % 2 = 1 => strand[i] \in Paired
           ELSE rounds >= 1 => strand[i] = "N"

\* A digit and a non-ASCII letter, complemented twice.
C7_Witness ==
    /\ rounds = 2
    /\ orig = << "5" >> \o eAcute
    /\ strand[1] = "5"
    /\ strand[2] = "N"

\* C8: on a bar started with total > 0, every frame Update, SetProgress or
\* Finish prints comes after as many cursor-ups as the frame before it has
\* lines; the frame Start prints comes after none.
C8_RedrawInPlace ==
    /\ (lastOp \in { "Update", "SetProgress", "Finish" } /\ total > 0 /\ drew)
       => ups = FrameLines(frame.header)
    /\ (lastOp = "Start" /\ drew) => ups = 0

\* C9: while total = 0, Start, Update and SetProgress print no frame, move
\* the cursor nowhere and do not fault.
C9_NoOpWhileTotalZero ==
    (total = 0 /\ lastOp \in { "Start", "Update", "SetProgress" })
    => /\ ~drew
       /\ ups = 0
       /\ ~blank
       /\ ~faulted

\* SetProgress on a bar whose total is still zero.
C9_Witness ==
    /\ lastOp = "SetProgress"
    /\ total = 0
    /\ completed = 3
    /\ frame = NoFrame

\* C10: on a bar that was started with total > 0 and then finished, a call
\* of Update or SetProgress leaves completed at total and prints no frame.
C10_DoneStaysDone ==
    [][(lastOp = "Finish" /\ total > 0
          /\ lastOp' \in { "Update", "SetProgress" })
         => (completed' = total' /\ ~drew')]_vars

====
